---- MODULE Spec2Model ----
(***************************************************************************)
(* concurrent_arena: a bucket (bitmap + entries with one atomic state      *)
(* byte each), the ArenaArc handles into it and the Arena facade           *)
(* (RwLock<Vec<Arc<Bucket>>>).  Every shared memory access of the code is  *)
(* one step of the thread that makes it; atomics are sequentially          *)
(* consistent in the model.                                                *)
(***************************************************************************)
EXTENDS Integers, Sequences, FiniteSets, Bags, TLC

\* ------------------------------------------------------------------ bounds
NumThreads == 2        \* threads 1..NumThreads; get_thread_id() of thread t is t
Bits == 2              \* usize::BITS, scaled down from 64
MaxInserts == 2        \* Bucket::try_insert calls that may be started
MaxHandles == 2        \* ArenaArc handles that may exist at once
U32_MAX == 5           \* u32::MAX, scaled down so that max_buckets is small
SatHandles == 126      \* handles that exist when the saturation run starts
MaxCalls == 7          \* calls a saturation run may start
MaxArenaInserts == 3   \* Arena::try_insert / insert calls of an arena run
MaxArenaCalls == 4     \* calls an arena run may start
MaxArenaHandles == 4   \* ArenaArc handles that may exist at once in an arena run
MaxGrowInserts == 3     \* Arena::insert / try_insert calls of a growth run
MaxBuffer == 2         \* largest BUFFER_SIZE of a try_reserve call
MaxHist == 2           \* copies of one key the history bags count up to
MaxArcsLen == 3        \* largest new_len of an Arcs::grow / try_grow call
BitMapWords == 2       \* words of the BitMap of the bitmap tests, scaled down from 512

\* ------------------------------------------------------- program constants
BITARRAY_LEN == 1
LEN == BITARRAY_LEN * Bits
REMOVED_MASK == 128
REFCNT_MASK == 255 - REMOVED_MASK
MAX_REFCNT == REFCNT_MASK
U8 == 256
max_buckets == U32_MAX \div LEN

Threads == 1 .. NumThreads
BucketIds == 0 .. (max_buckets - 1)
Indexes == 0 .. (LEN - 1)
Words == 0 .. (BITARRAY_LEN - 1)
NoValue == 0       \* Entry::val is Option::None; values are 1, 2, ...

\* ------------------------------------------------------------ bit helpers
RECURSIVE Pow2(_)
Pow2(n) == IF n = 0 THEN 1 ELSE 2 * Pow2(n - 1)

USIZE_MAX == Pow2(Bits) - 1

\* (value & (1 << i)) != 0
BitAt(value, i) == ((value \div Pow2(i)) % 2) = 1
\* value | (1 << i)
SetBit(value, i) == IF BitAt(value, i) THEN value ELSE value + Pow2(i)
\* a deallocate that leaves the bit set
KeepBit(value, i) == value

\* value & !(1 << i)
ClearBit(value, i) == IF BitAt(value, i) THEN value - Pow2(i) ELSE value

\* u8 arithmetic of fetch_add / fetch_sub / `refcnt - 1`: wrapping
Wrap8(x) == (x + U8) % U8
IsRemoved(c) == c >= REMOVED_MASK          \* (c & REMOVED_MASK) != 0
Refcnt(c) == c % REMOVED_MASK              \* c & REFCNT_MASK
OrRemoved(c) == IF IsRemoved(c) THEN c ELSE c + REMOVED_MASK

get_thread_id(t) == t

VARIABLES
    bitset,     \* bitset[b][w]: word w of the BitMap of bucket b
    counter,    \* counter[b][i]: Entry::counter, the state byte
    val,        \* val[b][i]: Entry::val, NoValue or the value stored
    handles,    \* bag of the ArenaArc handles that exist
    pc,         \* pc[t]: where thread t is in the code
    loc,        \* loc[t]: the locals of the call thread t is in
    len,        \* Arena::buckets: length of the Vec
    buckets,    \* Arena::buckets: the Vec, buckets[i + 1] is the bucket at index i
    rwlock,     \* Arena::buckets: state of the RwLock
    insLeft,    \* try_insert calls that may still be started
    hcap,       \* handles that may exist at once
    gen,        \* history: gen[b][i] values were written to the entry so far
    removedBy,  \* history: bag of <<b, i, g>>, one copy per successful remove
    destroyed,  \* history: bag of <<b, i, g>>, one copy per last-reference drop
    asserts,    \* history: debug assertions that failed
    callsLeft,  \* saturation runs: calls that may still be started
    owner,      \* the test still holds its Arc<Bucket>, `bucket`
    array,      \* Arcs::array: the ThinArc the ArcSwapAny holds
    mutex       \* Arcs::mutex: the thread that holds it, or NoThread

vars == <<bitset, counter, val, handles, pc, loc, len, rwlock, insLeft, hcap,
          gen, removedBy, destroyed, asserts, callsLeft, owner, buckets,
          array, mutex>>

bucketVars == <<bitset, counter, val>>
histVars == <<gen, removedBy, destroyed, asserts>>
arenaVars == <<len, rwlock>>
arcsVars == <<array, mutex>>

\* Option<ThinArc<(), T>>: ptr is heap_ptr(), 0 for None; elems the slice
NoArray == [ptr |-> 0, elems |-> <<>>]

NoThread == 0 - 1

\* An ArenaArc: { slot, index, bucket }; gen names the value it was made for.
ArenaArc(b, bucket_index, i, g) ==
    [slot |-> bucket_index * LEN + i, index |-> i, bucket |-> b, gen |-> g]

NoHandle == ArenaArc(0, 0, 0, 0)

\* ret: the handle a call returned, as a set ({} is None / Err); ok: the
\* boolean a call returned
NoLoc == [op |-> "none", b |-> 0, index |-> 0, pos |-> 0, k |-> 0, value |-> 0,
          refcnt |-> 0, h |-> NoHandle, ret |-> {}, ok |-> FALSE,
          g0 |-> 0, live0 |-> FALSE, rm0 |-> FALSE, srm0 |-> FALSE, nh0 |-> 0,
          rmEnd |-> FALSE, lowest |-> TRUE,
          deref |-> NoValue,
          new_len |-> 0, cnt |-> 0, buffer |-> 0, alen |-> 0,
          BUFFER_SIZE |-> 1, tried |-> 0, slot |-> 0, sawEmpty |-> FALSE,
          panic |-> FALSE,
          bucket_index |-> 0, pos0 |-> 0,
          refused |-> {}, wrote |-> FALSE, errlen |-> 0, below0 |-> FALSE,
          requested |-> 0, len0 |-> 0, added |-> 0,
          held |-> {},
          slice |-> NoArray, arc |-> NoArray, old_len |-> 0]

Key(b, i, g) == <<b, i, g>>
\* the key under which removedBy counts the Bucket::remove calls alone
SlotKey(b, i, g) == <<b, i, 0 - g>>

\* callsLeft of a run that may start any number of calls
NoLimit == 0 - 1

\* a thread starts a call: one call less is left to start
CallStart ==
    /\ callsLeft # 0
    /\ callsLeft' = IF callsLeft = NoLimit THEN NoLimit ELSE callsLeft - 1

\* one more copy of key k in a history bag, counted up to MaxHist
Record(bag, k) == IF CopiesIn(k, bag) >= MaxHist THEN bag ELSE bag (+) SetToBag({k})

Fail(cond, name) == IF cond THEN asserts ELSE asserts \cup {name}
\* checks: a set of <<condition, name>>; those whose condition is false fail
FailAll(checks) == asserts \cup {c[2] : c \in {x \in checks : ~x[1]}}

EmptyBuckets ==
    /\ bitset = [b \in BucketIds |-> [w \in Words |-> 0]]
    /\ counter = [b \in BucketIds |-> [i \in Indexes |-> 0]]
    /\ val = [b \in BucketIds |-> [i \in Indexes |-> NoValue]]
    /\ gen = [b \in BucketIds |-> [i \in Indexes |-> 0]]

InitCommon ==
    /\ pc = [t \in Threads |-> "idle"]
    /\ loc = [t \in Threads |-> NoLoc]
    /\ rwlock = [readers |-> {}, upgradable |-> 0, writer |-> 0]
    /\ removedBy = EmptyBag
    /\ destroyed = EmptyBag
    /\ asserts = {}
    /\ owner = TRUE
    /\ array = NoArray
    /\ mutex = NoThread

\* bucket.rs tests: one Arc<Bucket> made by Bucket::new(), no handle yet
Init ==
    /\ EmptyBuckets
    /\ InitCommon
    /\ handles = EmptyBag
    /\ len = 0
    /\ buckets = <<>>
    /\ insLeft = MaxInserts
    /\ hcap = MaxHandles
    /\ callsLeft = NoLimit

\* ------------------------------------------------------------------ BitMap
\* BitMap::load
BitMap_load(b, index) == BitAt(bitset[b][index \div Bits], index % Bits)

\* BITARRAY_LEN of the BitMap of bucket b: the number of its words
BitMap_len(b) == Cardinality(DOMAIN bitset[b])

\* a scan that skips no bit
AnyBit(value) == 0

\* the first clear bit of value, scanning LSB to MSB (for i in 0..bits)
FirstClear(value) ==
    CHOOSE i \in 0 .. (Bits - 1) :
        /\ ~BitAt(value, i)
        /\ \A j \in 0 .. (i - 1) : BitAt(value, j)

\* a compare_exchange that succeeds whatever the word holds
CasAlways(current, expected) == TRUE

\* compare_exchange_weak(curr, new): TRUE when the word holds curr
CasOk(current, expected) == current = expected

\* a scan that gives up after its first chunk
FirstChunkOnly(k, n) == TRUE

\* `for chunk in slice1_iter.chain(slice2_iter)`: the (k+1)-th chunk is the
\* last one of a BitMap of n words
LastChunk(k, n) == k + 1 = n

\* After allocate has read `value` from chunk `pos` as the (k+1)-th chunk:
\* a full word moves on to the next chunk, or ends the scan with None.
AllocAfterValue(t, value, nextOk, nextNone) ==
    IF value = USIZE_MAX
    THEN IF LastChunk(loc[t].k, BitMap_len(loc[t].b))
         THEN nextNone
         ELSE /\ pc' = [pc EXCEPT ![t] = "alloc_load"]
              /\ loc' = [loc EXCEPT ![t].pos = (loc[t].pos + 1) % BitMap_len(loc[t].b),
                                    ![t].k = loc[t].k + 1]
    ELSE nextOk

\* BitMap::allocate returns None, Bucket::try_insert returns Err(value): the
\* bitmap is full
TryInsertErr(t) ==
    IF loc[t].op \in {"Bucket::try_insert", "BitMap::allocate"}
    THEN /\ pc' = [pc EXCEPT ![t] = "done"]
         /\ loc' = [loc EXCEPT ![t].ret = {}]
    ELSE /\ pc' = [pc EXCEPT ![t] = "ati_next"]
         /\ loc' = [loc EXCEPT ![t].ret = {},
                               ![t].refused = loc[t].refused \cup {loc[t].b}]

\* BitMap::allocate, `chunk.load(Relaxed)`
AllocLoad(t) ==
    /\ pc[t] = "alloc_load"
    /\ LET value == bitset[loc[t].b][loc[t].pos] IN
       AllocAfterValue(t, value,
           /\ pc' = [pc EXCEPT ![t] = "alloc_cas"]
           /\ loc' = [loc EXCEPT ![t].value = value],
           TryInsertErr(t))
    /\ UNCHANGED <<bucketVars, handles, arenaVars, insLeft, hcap, owner, buckets, arcsVars, callsLeft, histVars>>

\* BitMap::allocate, `compare_exchange(chunk, value, value | mask)` on the
\* first clear bit of value
AllocCas(t) ==
    /\ pc[t] = "alloc_cas"
    /\ LET b == loc[t].b
           pos == loc[t].pos
           value == loc[t].value
           i == FirstClear(value)
           current == bitset[b][pos]
       IN IF CasOk(current, value)
          THEN /\ bitset' = [bitset EXCEPT ![b][pos] = SetBit(value, i)]
               /\ pc' = [pc EXCEPT ![t] = IF loc[t].op = "BitMap::allocate"
                                          THEN "done" ELSE "ins_load"]
               /\ loc' = [loc EXCEPT ![t].index = pos * Bits + i,
                                     ![t].ret = IF loc[t].op = "BitMap::allocate"
                                                THEN {pos * Bits + i} ELSE {},
                                     ![t].held = IF loc[t].op = "BitMap::allocate"
                                                 THEN loc[t].held \cup {pos * Bits + i}
                                                 ELSE loc[t].held,
                                     ![t].wrote = TRUE,
                                     ![t].lowest =
                                         \A j \in 0 .. (i - 1) : BitAt(current, j)]
          ELSE /\ UNCHANGED bitset
               /\ AllocAfterValue(t, current,
                      /\ pc' = pc
                      /\ loc' = [loc EXCEPT ![t].value = current],
                      TryInsertErr(t))
    /\ UNCHANGED <<counter, val, handles, arenaVars, insLeft, hcap, owner, buckets, arcsVars, callsLeft, histVars>>


\* ------------------------------------------------------------------ Bucket
CreatorOps == {"Bucket::try_insert", "Bucket::get", "Bucket::remove",
               "Arena::try_insert", "Arena::insert", "Arena::remove"}

\* calls in flight that may still hand out a handle
Creators == {t \in Threads : loc[t].op \in CreatorOps /\ pc[t] # "done"}

MayCreate == BagCardinality(handles) + Cardinality(Creators) < hcap

AddHandle(h) == handles (+) SetToBag({h})

\* the value of an entry is published and not removed: what a lookup that
\* starts now is entitled to find
Live(b, i) ==
    /\ gen[b][i] > 0
    /\ ~BagIn(Key(b, i, gen[b][i]), removedBy)
    /\ \A u \in Threads : ~(pc[u] = "ins_swap" /\ loc[u].b = b /\ loc[u].index = i)

\* 1 for the ArenaArc alone
HandleOnlyRefcnt == Cardinality({"ArenaArc"})

\* the refcount try_insert publishes: "1 for the ArenaArc, another is for the
\* Bucket itself"
InsertRefcnt == 2

\* the state Bucket::get installs: refcnt + 1
GetNew(refcnt) == refcnt + 1

\* the state Bucket::remove installs: refcnt | REMOVED_MASK
RemoveNew(refcnt) == OrRemoved(refcnt)

\* the state ArenaArc::remove installs: (refcnt - 1) | REMOVED_MASK
HandleRemoveNew(refcnt) == OrRemoved(Wrap8(refcnt - 1))

\* a drop that takes the last handle for the last reference
IsLastHandle(prev_counter) == Refcnt(prev_counter) = 2

\* Drop for ArenaArc: this drop saw the last reference
IsLastRef(prev_counter) == Refcnt(prev_counter) = 1

\* a test calls Bucket::try_insert(&bucket, 0, value)
StartTryInsert(t) ==
    /\ pc[t] = "idle"
    /\ owner
    /\ insLeft > 0
    /\ MayCreate
    /\ insLeft' = insLeft - 1
    /\ pc' = [pc EXCEPT ![t] = "alloc_load"]
    /\ loc' = [loc EXCEPT ![t] = [NoLoc EXCEPT !.op = "Bucket::try_insert",
                                              !.pos = get_thread_id(t) % BITARRAY_LEN]]
    /\ CallStart
    /\ UNCHANGED <<bucketVars, handles, arenaVars, hcap, owner, buckets, arcsVars, histVars>>

\* Bucket::try_insert, `entry.counter.load(Acquire)` and its debug_assert_eq
InsLoad(t) ==
    /\ pc[t] = "ins_load"
    /\ LET prev_refcnt == counter[loc[t].b][loc[t].index] IN
       asserts' = Fail(prev_refcnt = 0, "try_insert:prev_refcnt")
    /\ pc' = [pc EXCEPT ![t] = "ins_write"]
    /\ UNCHANGED <<bucketVars, handles, loc, arenaVars, insLeft, hcap, owner, buckets, arcsVars, callsLeft,
                   gen, removedBy, destroyed>>

\* Bucket::try_insert, `ptr.replace(Some(value))` and its debug_assert
InsWrite(t) ==
    /\ pc[t] = "ins_write"
    /\ LET b == loc[t].b
           i == loc[t].index
       IN /\ asserts' = Fail(val[b][i] = NoValue, "try_insert:res")
          /\ gen' = [gen EXCEPT ![b][i] = gen[b][i] + 1]
          /\ val' = [val EXCEPT ![b][i] = gen[b][i] + 1]
          /\ loc' = [loc EXCEPT ![t].g0 = gen[b][i] + 1, ![t].wrote = TRUE]
    /\ pc' = [pc EXCEPT ![t] = "ins_swap"]
    /\ UNCHANGED <<bitset, counter, handles, arenaVars, insLeft, hcap, owner, buckets, arcsVars, callsLeft,
                   removedBy, destroyed>>

\* Bucket::try_insert, `entry.counter.swap(2)` / `store(2)` and Ok(ArenaArc)
InsSwap(t) ==
    /\ pc[t] = "ins_swap"
    /\ LET b == loc[t].b
           i == loc[t].index
           h == ArenaArc(b, loc[t].bucket_index, i, loc[t].g0)
       IN /\ asserts' = Fail(counter[b][i] = 0, "try_insert:swap")
          /\ counter' = [counter EXCEPT ![b][i] = InsertRefcnt]
          /\ handles' = AddHandle(h)
          /\ loc' = [loc EXCEPT ![t].ret = {h}, ![t].ok = TRUE, ![t].wrote = TRUE]
    /\ pc' = [pc EXCEPT ![t] = IF loc[t].op = "Bucket::try_insert"
                               THEN "done" ELSE "ati_ok"]
    /\ UNCHANGED <<bitset, val, arenaVars, insLeft, hcap, owner, buckets, arcsVars, callsLeft, gen, removedBy, destroyed>>

EntryHandles(b, i) ==
    {h \in BagToSet(handles) : h.bucket = b /\ h.index = i}

\* number of handles that exist for entry (b, i)
RECURSIVE SumCopies(_)
SumCopies(S) ==
    IF S = {} THEN 0
    ELSE LET h == CHOOSE x \in S : TRUE IN CopiesIn(h, handles) + SumCopies(S \ {h})

NumHandles(b, i) == SumCopies(EntryHandles(b, i))

\* what a lookup records when it starts: the value the entry holds then
LookupStart(t, op, b, bucket_index, i) ==
    [NoLoc EXCEPT !.op = op, !.b = b, !.bucket_index = bucket_index, !.index = i,
                  !.slot = loc[t].slot, !.alen = loc[t].alen,
                  !.g0 = gen[b][i],
                  !.live0 = Live(b, i),
                  !.rm0 = BagIn(Key(b, i, gen[b][i]), removedBy),
                  !.srm0 = BagIn(SlotKey(b, i, gen[b][i]), removedBy),
                  !.nh0 = NumHandles(b, i)]

\* a lookup returns None
LookupNone(t, l) ==
    /\ pc' = [pc EXCEPT ![t] = "done"]
    /\ loc' = [loc EXCEPT ![t] = [l EXCEPT !.ret = {},
                    !.rmEnd = BagIn(Key(l.b, l.index, l.g0), removedBy)]]

\* the head of the loop of Bucket::get / Bucket::remove on a loaded refcnt:
\* removed returns None, anything else goes on to the spin or the CAS
LookupCheck(t, l, refcnt, nextpc) ==
    IF IsRemoved(refcnt)
    THEN LookupNone(t, l)
    ELSE /\ pc' = [pc EXCEPT ![t] = nextpc]
         /\ loc' = [loc EXCEPT ![t] = [l EXCEPT !.refcnt = refcnt]]

\* Bucket::get(this, 0, index), `this.bitset.load(index)`
GetBit(t, b, i) ==
    /\ pc[t] = "idle"
    /\ owner
    /\ MayCreate
    /\ LET l == LookupStart(t, "Bucket::get", b, 0, i) IN
       IF BitMap_load(b, i)
       THEN /\ pc' = [pc EXCEPT ![t] = "get_load"]
            /\ loc' = [loc EXCEPT ![t] = l]
       ELSE LookupNone(t, l)
    /\ CallStart
    /\ UNCHANGED <<bucketVars, handles, arenaVars, insLeft, hcap, owner, buckets, arcsVars, histVars>>

\* Bucket::get, `counter.load(Relaxed)` before the loop
GetLoad(t) ==
    /\ pc[t] = "get_load"
    /\ LookupCheck(t, loc[t], counter[loc[t].b][loc[t].index], "get_cas")
    /\ UNCHANGED <<bucketVars, handles, arenaVars, insLeft, hcap, owner, buckets, arcsVars, callsLeft, histVars>>

\* Bucket::get, `refcnt == 0`: spin_loop() and reload
GetSpin(t) ==
    /\ pc[t] = "get_cas"
    /\ loc[t].refcnt = 0
    /\ LookupCheck(t, loc[t], counter[loc[t].b][loc[t].index], "get_cas")
    /\ UNCHANGED <<bucketVars, handles, arenaVars, insLeft, hcap, owner, buckets, arcsVars, callsLeft, histVars>>

\* Bucket::get, `compare_exchange_weak(refcnt, refcnt + 1)`
GetCas(t) ==
    /\ pc[t] = "get_cas"
    /\ loc[t].refcnt # 0
    /\ LET b == loc[t].b
           i == loc[t].index
           h == ArenaArc(b, loc[t].bucket_index, i, gen[b][i])
       IN IF CasOk(counter[b][i], loc[t].refcnt)
          THEN /\ counter' = [counter EXCEPT ![b][i] = GetNew(loc[t].refcnt)]
               /\ handles' = AddHandle(h)
               /\ pc' = [pc EXCEPT ![t] = "done"]
               /\ loc' = [loc EXCEPT ![t].ret = {h}, ![t].ok = TRUE,
                              ![t].deref = val[b][i],
                              ![t].rmEnd = BagIn(Key(b, i, loc[t].g0), removedBy)]
          ELSE /\ LookupCheck(t, loc[t], counter[b][i], "get_cas")
               /\ UNCHANGED <<counter, handles>>
    /\ UNCHANGED <<bitset, val, arenaVars, insLeft, hcap, owner, buckets, arcsVars, callsLeft, histVars>>

\* Bucket::remove(this, 0, index), `this.bitset.load(index)`
RemoveBitLoad(t, op, b, bucket_index, i) ==
    LET l == LookupStart(t, op, b, bucket_index, i) IN
    IF BitMap_load(b, i)
    THEN /\ pc' = [pc EXCEPT ![t] = "rm_load"]
         /\ loc' = [loc EXCEPT ![t] = l]
    ELSE LookupNone(t, l)

\* a test calls Bucket::remove(bucket, 0, index)
RemoveBit(t, b, i) ==
    /\ pc[t] = "idle"
    /\ owner
    /\ MayCreate
    /\ RemoveBitLoad(t, "Bucket::remove", b, 0, i)
    /\ CallStart
    /\ UNCHANGED <<bucketVars, handles, arenaVars, insLeft, hcap, owner, buckets, arcsVars, histVars>>

\* Bucket::remove, `counter.load(Relaxed)` before the loop
RemoveLoad(t) ==
    /\ pc[t] = "rm_load"
    /\ LookupCheck(t, loc[t], counter[loc[t].b][loc[t].index], "rm_cas")
    /\ UNCHANGED <<bucketVars, handles, arenaVars, insLeft, hcap, owner, buckets, arcsVars, callsLeft, histVars>>

\* Bucket::remove, `refcnt == 0`: spin_loop() and reload
RemoveSpin(t) ==
    /\ pc[t] = "rm_cas"
    /\ loc[t].refcnt = 0
    /\ LookupCheck(t, loc[t], counter[loc[t].b][loc[t].index], "rm_cas")
    /\ UNCHANGED <<bucketVars, handles, arenaVars, insLeft, hcap, owner, buckets, arcsVars, callsLeft, histVars>>

\* Bucket::remove, `compare_exchange_weak(refcnt, refcnt | REMOVED_MASK)`
RemoveCas(t) ==
    /\ pc[t] = "rm_cas"
    /\ loc[t].refcnt # 0
    /\ LET b == loc[t].b
           i == loc[t].index
           h == ArenaArc(b, loc[t].bucket_index, i, gen[b][i])
       IN IF CasOk(counter[b][i], loc[t].refcnt)
          THEN /\ counter' = [counter EXCEPT ![b][i] = RemoveNew(loc[t].refcnt)]
               /\ handles' = AddHandle(h)
               /\ removedBy' = Record(Record(removedBy, Key(b, i, gen[b][i])),
                                       SlotKey(b, i, gen[b][i]))
               /\ pc' = [pc EXCEPT ![t] = "done"]
               /\ loc' = [loc EXCEPT ![t].ret = {h}, ![t].ok = TRUE,
                              ![t].deref = val[b][i],
                              ![t].rmEnd = BagIn(Key(b, i, loc[t].g0), removedBy)]
          ELSE /\ LookupCheck(t, loc[t], counter[b][i], "rm_cas")
               /\ UNCHANGED <<counter, handles, removedBy>>
    /\ UNCHANGED <<bitset, val, arenaVars, insLeft, hcap, owner, buckets, arcsVars, callsLeft, gen, destroyed, asserts>>


\* ---------------------------------------------------------------- ArenaArc
\* ArenaArc::get_entry: the entry of the handle, with its debug_assert
GetEntryOk(h) == Refcnt(counter[h.bucket][h.index]) > 0

\* ArenaArc::strong_count
strong_count(h) == Refcnt(counter[h.bucket][h.index])

\* ArenaArc::is_removed
is_removed(h) == IsRemoved(counter[h.bucket][h.index])

\* Deref for ArenaArc: the content of the cell of the handle
Deref(h) == val[h.bucket][h.index]

\* threads inside a call that borrows handle h (&self)
Borrowers(h) == {t \in Threads : pc[t] = "hrm_cas" /\ loc[t].h = h}

\* a handle may be dropped when no call borrows it: all borrowers may be
\* sharing one copy
MayDrop(h) == BagIn(h, handles) /\ (CopiesIn(h, handles) >= 2 \/ Borrowers(h) = {})

\* the head of the loop of ArenaArc::remove on a loaded refcnt
HandleRemoveCheck(t, l, refcnt, more) ==
    /\ asserts' = FailAll(more \cup
            {<<Refcnt(refcnt) # 0, "remove:refcnt_ne_0">>,
             <<IsRemoved(refcnt) \/ refcnt # 1, "remove:refcnt_ne_1">>})
    /\ IF IsRemoved(refcnt)
       THEN /\ pc' = [pc EXCEPT ![t] = "done"]
            /\ loc' = [loc EXCEPT ![t] = [l EXCEPT !.ok = FALSE]]
       ELSE /\ pc' = [pc EXCEPT ![t] = "hrm_cas"]
            /\ loc' = [loc EXCEPT ![t] = [l EXCEPT !.refcnt = refcnt]]

\* ArenaArc::remove(&h), get_entry and `counter.load(Relaxed)`
HandleRemoveLoad(t, h) ==
    /\ pc[t] = "idle"
    /\ BagIn(h, handles)
    /\ HandleRemoveCheck(t,
           [LookupStart(t, "ArenaArc::remove", h.bucket, 0, h.index) EXCEPT !.h = h],
           counter[h.bucket][h.index],
           {<<GetEntryOk(h), "get_entry">>})
    /\ CallStart
    /\ UNCHANGED <<bucketVars, handles, arenaVars, insLeft, hcap, owner, buckets, arcsVars,
                   gen, removedBy, destroyed>>

\* ArenaArc::remove, `compare_exchange_weak(refcnt, (refcnt - 1) | REMOVED_MASK)`
HandleRemoveCas(t) ==
    /\ pc[t] = "hrm_cas"
    /\ LET b == loc[t].b
           i == loc[t].index
       IN IF CasOk(counter[b][i], loc[t].refcnt)
          THEN /\ counter' = [counter EXCEPT ![b][i] = HandleRemoveNew(loc[t].refcnt)]
               /\ removedBy' = Record(removedBy, Key(b, i, gen[b][i]))
               /\ pc' = [pc EXCEPT ![t] = "done"]
               /\ loc' = [loc EXCEPT ![t].ok = TRUE]
               /\ UNCHANGED asserts
          ELSE /\ HandleRemoveCheck(t, loc[t], counter[b][i], {})
               /\ UNCHANGED <<counter, removedBy>>
    /\ UNCHANGED <<bitset, val, handles, arenaVars, insLeft, hcap, owner, buckets, arcsVars, callsLeft, gen, destroyed>>

\* Clone for ArenaArc: the fetch_add finds the refcount at MAX_REFCNT
ClonePanics(h) == Refcnt(counter[h.bucket][h.index]) = MAX_REFCNT

\* Clone for ArenaArc: `fetch_add(1, Relaxed)`, the overflow panic, the copy
Clone(t, h) ==
    /\ pc[t] = "idle"
    /\ BagIn(h, handles)
    /\ MayCreate
    /\ LET b == h.bucket
           i == h.index
           prev == counter[b][i]
       IN /\ counter' = [counter EXCEPT ![b][i] = Wrap8(prev + 1)]
          /\ IF ClonePanics(h)
             THEN /\ asserts' = FailAll({<<GetEntryOk(h), "get_entry">>,
                                         <<FALSE, "clone:panic">>})
                  /\ UNCHANGED handles
             ELSE /\ asserts' = Fail(GetEntryOk(h), "get_entry")
                  /\ handles' = AddHandle(h)
    /\ CallStart
    /\ UNCHANGED <<bitset, val, pc, loc, arenaVars, insLeft, hcap, owner, buckets, arcsVars,
                   gen, removedBy, destroyed>>

\* Drop for ArenaArc: get_entry, `fetch_sub(1, Release)` and the test for the
\* last reference
Drop(t, h) ==
    /\ pc[t] = "idle"
    /\ MayDrop(h)
    /\ LET b == h.bucket
           i == h.index
           prev_counter == counter[b][i]
           last == IsLastRef(prev_counter)
       IN /\ handles' = handles (-) SetToBag({h})
          /\ counter' = [counter EXCEPT ![b][i] = Wrap8(prev_counter - 1)]
          /\ asserts' = FailAll(
                 {<<GetEntryOk(h), "get_entry">>,
                  <<Refcnt(prev_counter) # 0, "drop:prev_refcnt_ne_0">>,
                  <<~last \/ prev_counter = REMOVED_MASK + 1, "drop:prev_counter">>})
          /\ destroyed' = IF last THEN Record(destroyed, Key(b, i, h.gen))
                          ELSE destroyed
          /\ pc' = [pc EXCEPT ![t] = IF last THEN "drop_val" ELSE "idle"]
          /\ loc' = [loc EXCEPT ![t] = IF last
                         THEN [NoLoc EXCEPT !.op = "drop", !.b = b, !.index = i, !.h = h]
                         ELSE NoLoc]
    /\ CallStart
    /\ UNCHANGED <<bitset, val, arenaVars, insLeft, hcap, owner, buckets, arcsVars, gen, removedBy>>

\* Drop for ArenaArc, last reference: `*option = None`
DropVal(t) ==
    /\ pc[t] = "drop_val"
    /\ val' = [val EXCEPT ![loc[t].b][loc[t].index] = NoValue]
    /\ pc' = [pc EXCEPT ![t] = "drop_store"]
    /\ UNCHANGED <<bitset, counter, handles, loc, arenaVars, insLeft, hcap, owner, buckets, arcsVars, callsLeft, histVars>>

\* Drop for ArenaArc, last reference: `entry.counter.store(0, Release)`
DropStore(t) ==
    /\ pc[t] = "drop_store"
    /\ counter' = [counter EXCEPT ![loc[t].b][loc[t].index] = 0]
    /\ pc' = [pc EXCEPT ![t] = "dealloc_load"]
    /\ UNCHANGED <<bitset, val, handles, loc, arenaVars, insLeft, hcap, owner, buckets, arcsVars, callsLeft, histVars>>

\* BitMap::deallocate, `chunk.load(Relaxed)`
DeallocLoad(t) ==
    /\ pc[t] = "dealloc_load"
    /\ loc' = [loc EXCEPT ![t].value = bitset[loc[t].b][loc[t].index \div Bits]]
    /\ pc' = [pc EXCEPT ![t] = "dealloc_cas"]
    /\ UNCHANGED <<bucketVars, handles, arenaVars, insLeft, hcap, owner, buckets, arcsVars, callsLeft, histVars>>

\* BitMap::deallocate, `compare_exchange(chunk, value, value & mask)`; the
\* drop ends when it succeeds
DeallocCas(t) ==
    /\ pc[t] = "dealloc_cas"
    /\ LET b == loc[t].b
           w == loc[t].index \div Bits
           current == bitset[b][w]
       IN IF CasOk(current, loc[t].value)
          THEN /\ bitset' = [bitset EXCEPT ![b][w] =
                                 ClearBit(loc[t].value, loc[t].index % Bits)]
               /\ pc' = [pc EXCEPT ![t] = "idle"]
               /\ loc' = [loc EXCEPT ![t] =
                              [NoLoc EXCEPT !.held = loc[t].held \ {loc[t].index}]]
          ELSE /\ loc' = [loc EXCEPT ![t].value = current]
               /\ UNCHANGED <<bitset, pc>>
    /\ UNCHANGED <<counter, val, handles, arenaVars, insLeft, hcap, owner, buckets, arcsVars, callsLeft, histVars>>

\* the call returns to the test, which goes on to its next call
Return(t) ==
    /\ pc[t] = "done"
    /\ pc' = [pc EXCEPT ![t] = "idle"]
    /\ loc' = [loc EXCEPT ![t] = [NoLoc EXCEPT !.held = loc[t].held]]
    /\ UNCHANGED <<bucketVars, handles, arenaVars, insLeft, hcap, owner, buckets, arcsVars, callsLeft, histVars>>

\* ------------------------------------------------------------------- Arena
Min(a, b) == IF a <= b THEN a ELSE b

\* an iterator that yields its first bucket again and again
ChainStuck(pos, k, n) == pos

\* guard[pos..].iter().chain(guard[..pos].iter()): the index in the Vec of
\* the k-th bucket the iterator yields, n being the length of the Vec
ChainAt(pos, k, n) == IF pos + k < n THEN pos + k ELSE pos + k - n

\* a loop that forgets to advance pos
SamePos(pos, n) == pos

\* Arena::try_insert, `pos = (pos + 1) % len`
NextPos(pos, n) == (pos + 1) % n

\* a read guard that outlives the call
LeakReadGuard(readers, t) == readers

\* Arena::try_insert returns: `guard`, the RwLockReadGuard, is dropped
DropReadGuard(readers, t) == readers \ {t}

\* RwLock::read: waits while the writer bit is set
CanRead == rwlock.writer = 0

\* a reservation that takes new_len as it is
ReserveAll(new_len) == new_len

\* Arena::try_reserve, `let new_len = min(new_len, Self::max_buckets())`
ReserveTarget(new_len) == Min(new_len, max_buckets)

\* a Vec that is replaced by the buffer
ReplaceBuckets(l, buffer) == buffer

\* a Vec that is shortened by the length of the buffer
TruncateBuckets(l, buffer) == l - buffer

\* Arena::try_reserve, `for new_bucket in buffer.drain(..) { write_guard.push(..) }`
PushBuckets(l, buffer) == l + buffer

\* Arc::new(Bucket::new()): a bucket that is in no Vec yet
NewBucket(v) == CHOOSE b \in 0 .. Len(v) : \A i \in 1 .. Len(v) : v[i] # b

\* a Vec that takes the new buckets at its front
RECURSIVE PushFront(_, _)
PushFront(v, n) == IF n = 0 THEN v ELSE PushFront(<<NewBucket(v)>> \o v, n - 1)

\* Arena::try_reserve, `write_guard.push(new_bucket)` for the n buckets of
\* the buffer: Vec::push appends
RECURSIVE PushBack(_, _)
PushBack(v, n) == IF n = 0 THEN v ELSE PushBack(Append(v, NewBucket(v)), n - 1)

\* a retry that asks for the length it has seen
SameLen(l) == l

\* Arena::insert, `self.try_reserve::<1>(len + 1)`
InsertReserveLen(l) == l + 1

\* Arena::try_insert returns Err((value, l)); inside Arena::insert the loop
\* goes on with try_reserve::<1>(l + 1), or retries when l = max_buckets
ArenaTryInsertErr(t, snap, l) ==
    IF loc[t].op = "Arena::try_insert"
    THEN /\ pc' = [pc EXCEPT ![t] = "done"]
         /\ loc' = [loc EXCEPT ![t].ret = {}, ![t].ok = FALSE, ![t].errlen = l,
                               ![t].alen = snap]
    ELSE IF l # max_buckets
         THEN /\ pc' = [pc EXCEPT ![t] = "rsv_try"]
              /\ loc' = [loc EXCEPT ![t].errlen = l,
                                    ![t].alen = snap,
                                    ![t].requested = InsertReserveLen(l),
                                    ![t].new_len = ReserveTarget(InsertReserveLen(l)),
                                    ![t].added = 0,
                                    ![t].BUFFER_SIZE = 1,
                                    ![t].sawEmpty = loc[t].sawEmpty \/ l = 0]
         ELSE /\ pc' = [pc EXCEPT ![t] = "ati_lock"]
              /\ loc' = [loc EXCEPT ![t].errlen = l, ![t].alen = snap]

\* a thread calls arena.try_insert(value) or arena.insert(value)
StartArenaInsert(t, op) ==
    /\ pc[t] = "idle"
    /\ insLeft > 0
    /\ MayCreate
    /\ CallStart
    /\ insLeft' = insLeft - 1
    /\ pc' = [pc EXCEPT ![t] = "ati_lock"]
    /\ loc' = [loc EXCEPT ![t] = [NoLoc EXCEPT !.op = op,
                                              !.below0 = len < max_buckets]]
    /\ UNCHANGED <<bucketVars, handles, arenaVars, hcap, owner, buckets, arcsVars, histVars>>

\* Arena::try_insert, `self.buckets.read()`, `guard.len()` and `len == 0`
ArenaTryInsertLock(t) ==
    /\ pc[t] = "ati_lock"
    /\ CanRead
    /\ asserts' = Fail(len <= max_buckets, "Arena::try_insert:len")
    /\ IF len = 0
       THEN /\ ArenaTryInsertErr(t, len, 0)
            /\ UNCHANGED rwlock
       ELSE /\ rwlock' = [rwlock EXCEPT !.readers = @ \cup {t}]
            /\ pc' = [pc EXCEPT ![t] = "alloc_load"]
            /\ loc' = [loc EXCEPT ![t].alen = len,
                                  ![t].refused = {},
                                  ![t].pos0 = get_thread_id(t) % len,
                                  ![t].bucket_index = get_thread_id(t) % len,
                                  ![t].b = buckets[ChainAt(get_thread_id(t) % len, 0, len) + 1],
                                  ![t].tried = 0,
                                  ![t].pos = get_thread_id(t) % BITARRAY_LEN,
                                  ![t].k = 0]
    /\ UNCHANGED <<bucketVars, handles, len, insLeft, hcap, owner, buckets, arcsVars, callsLeft,
                   gen, removedBy, destroyed>>

\* Arena::try_insert, Err(val) of a bucket: `pos = (pos + 1) % len` and the
\* next bucket, or Err((value, len)) after the last one
ArenaTryInsertNext(t) ==
    /\ pc[t] = "ati_next"
    /\ IF loc[t].tried + 1 = loc[t].alen
       THEN /\ rwlock' = [rwlock EXCEPT !.readers = DropReadGuard(@, t)]
            /\ ArenaTryInsertErr(t, loc[t].alen, loc[t].alen)
       ELSE /\ pc' = [pc EXCEPT ![t] = "alloc_load"]
            /\ loc' = [loc EXCEPT ![t].b = buckets[ChainAt(loc[t].pos0, loc[t].tried + 1,
                                                                  loc[t].alen) + 1],
                                  ![t].bucket_index =
                                      NextPos(loc[t].bucket_index, loc[t].alen),
                                  ![t].tried = loc[t].tried + 1,
                                  ![t].pos = get_thread_id(t) % BITARRAY_LEN,
                                  ![t].k = 0]
            /\ UNCHANGED rwlock
    /\ UNCHANGED <<bucketVars, handles, len, insLeft, hcap, owner, buckets, arcsVars, callsLeft, histVars>>

\* Arena::try_insert, Ok(arc): the read guard is dropped
ArenaTryInsertOk(t) ==
    /\ pc[t] = "ati_ok"
    /\ rwlock' = [rwlock EXCEPT !.readers = DropReadGuard(@, t)]
    /\ pc' = [pc EXCEPT ![t] = "done"]
    /\ UNCHANGED <<bucketVars, handles, loc, len, insLeft, hcap, owner, buckets, arcsVars, callsLeft, histVars>>

\* try_reserve returns res; inside Arena::insert the loop restarts
ReserveReturn(t, l, res) ==
    IF l.op = "Arena::try_reserve"
    THEN /\ pc' = [pc EXCEPT ![t] = "done"]
         /\ loc' = [loc EXCEPT ![t] = [l EXCEPT !.ok = res, !.buffer = 0]]
    ELSE /\ pc' = [pc EXCEPT ![t] = "ati_lock"]
         /\ loc' = [loc EXCEPT ![t] = [l EXCEPT !.ok = res, !.buffer = 0]]

\* a thread calls arena.try_reserve::<BUFFER_SIZE>(new_len); `new_len == 0`
StartTryReserve(t, bs, new_len) ==
    /\ pc[t] = "idle"
    /\ CallStart
    /\ LET l == [NoLoc EXCEPT !.op = "Arena::try_reserve", !.BUFFER_SIZE = bs,
                              !.requested = new_len,
                              !.new_len = ReserveTarget(new_len),
                              !.len0 = len]
       IN IF new_len = 0
          THEN /\ pc' = [pc EXCEPT ![t] = "done"]
               /\ loc' = [loc EXCEPT ![t] = [l EXCEPT !.ok = TRUE]]
          ELSE /\ pc' = [pc EXCEPT ![t] = "rsv_try"]
               /\ loc' = [loc EXCEPT ![t] = l]
    /\ UNCHANGED <<bucketVars, handles, arenaVars, insLeft, hcap, owner, buckets, arcsVars, histVars>>

\* the buffer a round of try_reserve fills: min(cnt, BUFFER_SIZE) buckets
ReserveRound(l, cnt) ==
    [l EXCEPT !.buffer = Min(cnt, l.BUFFER_SIZE),
              !.cnt = cnt - Min(cnt, l.BUFFER_SIZE)]

\* Arena::try_reserve, `try_upgradable_read()`, `len >= new_len` and the
\* first round of the buffer
ReserveTry(t) ==
    /\ pc[t] = "rsv_try"
    /\ IF rwlock.writer # 0 \/ rwlock.upgradable # 0
       THEN /\ ReserveReturn(t, loc[t], FALSE)
            /\ UNCHANGED rwlock
       ELSE IF len >= loc[t].new_len
            THEN /\ ReserveReturn(t, loc[t], TRUE)
                 /\ UNCHANGED rwlock
            ELSE /\ rwlock' = [rwlock EXCEPT !.upgradable = t]
                 /\ pc' = [pc EXCEPT ![t] = "rsv_upgrade"]
                 /\ loc' = [loc EXCEPT ![t] =
                                ReserveRound(loc[t], loc[t].new_len - len)]
    /\ UNCHANGED <<bucketVars, handles, len, insLeft, hcap, owner, buckets, arcsVars, callsLeft, histVars>>

\* Arena::try_reserve, `RwLockUpgradableReadGuard::upgrade`: the writer bit
\* is set, new readers wait from now on
ReserveUpgrade(t) ==
    /\ pc[t] = "rsv_upgrade"
    /\ rwlock' = [rwlock EXCEPT !.upgradable = 0, !.writer = t]
    /\ pc' = [pc EXCEPT ![t] = "rsv_wait"]
    /\ UNCHANGED <<bucketVars, handles, loc, len, insLeft, hcap, owner, buckets, arcsVars, callsLeft, histVars>>

\* Arena::try_reserve, the upgrade completes when the readers have left:
\* the buffer is pushed, then `cnt == 0` returns true (the write guard is
\* dropped) or the guard is downgraded for the next round
ReservePush(t) ==
    /\ pc[t] = "rsv_wait"
    /\ rwlock.readers = {}
    /\ len' = PushBuckets(len, loc[t].buffer)
    /\ buckets' = PushBack(buckets, loc[t].buffer)
    /\ LET l == [loc[t] EXCEPT !.added = loc[t].added + loc[t].buffer] IN
       IF l.cnt = 0
       THEN /\ rwlock' = [rwlock EXCEPT !.writer = 0]
            /\ ReserveReturn(t, l, TRUE)
       ELSE /\ rwlock' = [rwlock EXCEPT !.writer = 0, !.upgradable = t]
            /\ pc' = [pc EXCEPT ![t] = "rsv_upgrade"]
            /\ loc' = [loc EXCEPT ![t] = ReserveRound(l, l.cnt)]
    /\ UNCHANGED <<bucketVars, handles, insLeft, hcap, owner, arcsVars, callsLeft, histVars>>

\* a thread calls arena.remove(slot)
StartArenaRemove(t, slot) ==
    /\ pc[t] = "idle"
    /\ MayCreate
    /\ CallStart
    /\ pc' = [pc EXCEPT ![t] = "arm_lock"]
    /\ loc' = [loc EXCEPT ![t] = [NoLoc EXCEPT !.op = "Arena::remove",
                                              !.slot = slot,
                                              !.bucket_index = slot \div LEN,
                                              !.index = slot % LEN]]
    /\ UNCHANGED <<bucketVars, handles, arenaVars, insLeft, hcap, owner, buckets, arcsVars, histVars>>

\* Arena::remove, `self.buckets.read()[bucket_index].clone()`: the index
\* panics when it is out of bounds; the guard is a temporary
ArenaRemoveLock(t) ==
    /\ pc[t] = "arm_lock"
    /\ CanRead
    /\ IF loc[t].bucket_index >= len
       THEN /\ pc' = [pc EXCEPT ![t] = "done"]
            /\ loc' = [loc EXCEPT ![t].panic = TRUE, ![t].alen = len]
       ELSE /\ pc' = [pc EXCEPT ![t] = "arm_bit"]
            /\ loc' = [loc EXCEPT ![t].b = buckets[loc[t].bucket_index + 1],
                                  ![t].alen = len]
    /\ UNCHANGED <<bucketVars, handles, arenaVars, insLeft, hcap, owner, buckets, arcsVars, callsLeft, histVars>>

\* Arena::remove, Bucket::remove(bucket, bucket_index, index):
\* `this.bitset.load(index)`
ArenaRemoveBit(t) ==
    /\ pc[t] = "arm_bit"
    /\ RemoveBitLoad(t, "Arena::remove", loc[t].b, loc[t].bucket_index, loc[t].index)
    /\ UNCHANGED <<bucketVars, handles, arenaVars, insLeft, hcap, owner, buckets, arcsVars, callsLeft, histVars>>

\* Arena::len, `self.buckets.read().len()`
ArenaLen(t) ==
    /\ pc[t] = "idle"
    /\ CanRead
    /\ CallStart
    /\ pc' = [pc EXCEPT ![t] = "done"]
    /\ loc' = [loc EXCEPT ![t] = [NoLoc EXCEPT !.op = "Arena::len", !.alen = len]]
    /\ UNCHANGED <<bucketVars, handles, arenaVars, insLeft, hcap, owner, buckets, arcsVars, histVars>>

ArenaStep(t) ==
    \/ ArenaTryInsertLock(t) \/ ArenaTryInsertNext(t) \/ ArenaTryInsertOk(t)
    \/ ReserveTry(t) \/ ReserveUpgrade(t) \/ ReservePush(t)
    \/ ArenaRemoveLock(t) \/ ArenaRemoveBit(t)

\* ------------------------------------------------------------ bucket tests
TestBucket == 0

InsertStep(t) ==
    AllocLoad(t) \/ AllocCas(t) \/ InsLoad(t) \/ InsWrite(t) \/ InsSwap(t)

GetStep(t) == GetLoad(t) \/ GetSpin(t) \/ GetCas(t)

RemoveStep(t) == RemoveLoad(t) \/ RemoveSpin(t) \/ RemoveCas(t)

HandleStep(t) ==
    \/ HandleRemoveCas(t)
    \/ DropVal(t) \/ DropStore(t) \/ DeallocLoad(t) \/ DeallocCas(t)

BucketStep(t) == InsertStep(t) \/ GetStep(t) \/ RemoveStep(t) \/ HandleStep(t)

Next ==
    \E t \in Threads :
        \/ StartTryInsert(t)
        \/ \E i \in Indexes : GetBit(t, TestBucket, i)
        \/ \E i \in Indexes : RemoveBit(t, TestBucket, i)
        \/ \E h \in BagToSet(handles) : HandleRemoveLoad(t, h)
        \/ \E h \in BagToSet(handles) : Clone(t, h)
        \/ \E h \in BagToSet(handles) : Drop(t, h)
        \/ BucketStep(t)
        \/ Return(t)

Spec == Init /\ [][Next]_vars

\* the steps of the call thread t is in, up to its return to the test
Step(t) == BucketStep(t) \/ Return(t)

\* the bucket tests on threads that are scheduled again and again: a thread
\* that is in a call and can take a step eventually takes one
SpecFair == Init /\ [][Next]_vars /\ \A t \in Threads : WF_vars(Step(t))


\* ------------------------------------------------------- saturation runs
\* One bucket whose entry 0 was inserted once and whose handle was cloned
\* until SatHandles handles exist: the state byte is SatHandles + 1.  The
\* threads start MaxCalls calls, and never clone a handle whose entry is at
\* MAX_REFCNT, so that no run contains a panic.
SatHandle == ArenaArc(TestBucket, 0, 0, 1)

InitSat ==
    /\ bitset = [b \in BucketIds |-> [w \in Words |->
                    IF b = TestBucket /\ w = 0 THEN 1 ELSE 0]]
    /\ counter = [b \in BucketIds |-> [i \in Indexes |->
                    IF b = TestBucket /\ i = 0 THEN SatHandles + 1 ELSE 0]]
    /\ val = [b \in BucketIds |-> [i \in Indexes |->
                    IF b = TestBucket /\ i = 0 THEN 1 ELSE NoValue]]
    /\ gen = [b \in BucketIds |-> [i \in Indexes |->
                    IF b = TestBucket /\ i = 0 THEN 1 ELSE 0]]
    /\ InitCommon
    /\ handles = [h \in {SatHandle} |-> SatHandles]
    /\ len = 0
    /\ buckets = <<>>
    /\ insLeft = 0
    /\ hcap = MAX_REFCNT + 2
    /\ callsLeft = MaxCalls

NextSat ==
    \E t \in Threads :
        \/ GetBit(t, TestBucket, 0)
        \/ RemoveBit(t, TestBucket, 0)
        \/ \E h \in BagToSet(handles) : HandleRemoveLoad(t, h)
        \/ \E h \in BagToSet(handles) : ~ClonePanics(h) /\ Clone(t, h)
        \/ \E h \in BagToSet(handles) : Drop(t, h)
        \/ GetStep(t) \/ RemoveStep(t) \/ HandleStep(t)
        \/ Return(t)

SpecSat == InitSat /\ [][NextSat]_vars

\* ------------------------------------------------------------ owner runs
DropPcs == {"drop_val", "drop_store", "dealloc_load", "dealloc_cas"}

\* calls that are made on the Arc<Bucket> of the test
BucketOps == {"Bucket::try_insert", "Bucket::get", "Bucket::remove"}

\* handles into bucket b that a thread is in the middle of dropping: their
\* `bucket` field is dropped after the body of Drop
Dropping(b) == {t \in Threads : pc[t] \in DropPcs /\ loc[t].b = b}

\* handles into bucket b that exist
BucketHandles(b) == {h \in BagToSet(handles) : h.bucket = b}

\* Arc::strong_count of bucket b: one for the owner, one for the `bucket`
\* field of every ArenaArc (Arc::clone(this))
Arc_strong_count(b) ==
    (IF owner THEN 1 ELSE 0) + SumCopies(BucketHandles(b)) + Cardinality(Dropping(b))

\* tests::test_clone, `drop(bucket)`: no call made on it is running
DropOwner ==
    /\ owner
    /\ \A t \in Threads : pc[t] \in {"idle", "done"} \/ loc[t].op \notin BucketOps
    /\ owner' = FALSE
    /\ UNCHANGED <<bucketVars, handles, pc, loc, arenaVars, insLeft, hcap,
                   buckets, arcsVars, callsLeft, histVars>>

\* a saturation run in which the test may drop its bucket
SpecSatOwner == InitSat /\ [][NextSat \/ DropOwner]_vars

\* ------------------------------------------------------------- arena runs
\* Arena::with_capacity(cap), cap = 0 being Arena::const_new()
InitArena ==
    /\ EmptyBuckets
    /\ InitCommon
    /\ handles = EmptyBag
    /\ \E cap \in 0 .. (max_buckets + 1) : len = Min(cap, max_buckets)
    /\ buckets = PushBack(<<>>, len)
    /\ insLeft = MaxArenaInserts
    /\ hcap = MaxArenaHandles
    /\ callsLeft = MaxArenaCalls

NextArena ==
    \E t \in Threads :
        \/ StartArenaInsert(t, "Arena::try_insert")
        \/ StartArenaInsert(t, "Arena::insert")
        \/ \E bs \in 1 .. MaxBuffer, n \in 0 .. (max_buckets + 1) :
               StartTryReserve(t, bs, n)
        \/ \E slot \in 0 .. (max_buckets * LEN - 1) : StartArenaRemove(t, slot)
        \/ ArenaLen(t)
        \/ \E h \in BagToSet(handles) : HandleRemoveLoad(t, h)
        \/ \E h \in BagToSet(handles) : Clone(t, h)
        \/ \E h \in BagToSet(handles) : Drop(t, h)
        \/ ArenaStep(t)
        \/ InsertStep(t) \/ RemoveStep(t) \/ HandleStep(t)
        \/ Return(t)

SpecArena == InitArena /\ [][NextArena]_vars

\* ------------------------------------------------------------ growth runs
\* word w of a bitmap in which exactly the entries of S are allocated
RECURSIVE WordOf(_, _, _)
WordOf(S, w, n) ==
    IF n = 0 THEN 0
    ELSE WordOf(S, w, n - 1)
             + (IF (w * Bits + n - 1) \in S THEN Pow2(n - 1) ELSE 0)

\* An arena of n buckets, made by Arena::with_capacity(cap), after earlier
\* inserts whose handles were dropped:
\* the entries of occ[b] hold a value and the count of the bucket (state
\* byte 1), the others are empty.  Threads call Arena::insert and
\* Arena::try_insert, nothing is removed.
InitGrow ==
    /\ \E cap \in 0 .. (max_buckets + 1) :
       \E n \in {Min(cap, max_buckets)} :
       \E occ \in [BucketIds -> SUBSET Indexes] :
           /\ \A b \in BucketIds : b >= n => occ[b] = {}
           /\ len = n
           /\ buckets = PushBack(<<>>, n)
           /\ bitset = [b \in BucketIds |-> [w \in Words |-> WordOf(occ[b], w, Bits)]]
           /\ counter = [b \in BucketIds |-> [i \in Indexes |->
                              IF i \in occ[b] THEN 1 ELSE 0]]
           /\ val = [b \in BucketIds |-> [i \in Indexes |->
                          IF i \in occ[b] THEN 1 ELSE NoValue]]
           /\ gen = [b \in BucketIds |-> [i \in Indexes |->
                          IF i \in occ[b] THEN 1 ELSE 0]]
    /\ InitCommon
    /\ handles = EmptyBag
    /\ insLeft = MaxGrowInserts
    /\ hcap = MaxGrowInserts
    /\ callsLeft = NoLimit

\* the steps of the call thread t is in
Progress(t) ==
    \/ ArenaTryInsertLock(t) \/ ArenaTryInsertNext(t) \/ ArenaTryInsertOk(t)
    \/ ReserveTry(t) \/ ReserveUpgrade(t) \/ ReservePush(t)
    \/ InsertStep(t)
    \/ Return(t)

NextGrow ==
    \E t \in Threads :
        \/ StartArenaInsert(t, "Arena::try_insert")
        \/ StartArenaInsert(t, "Arena::insert")
        \/ Progress(t)

\* every thread that is in a call and can take a step eventually takes one
SpecGrow == InitGrow /\ [][NextGrow]_vars /\ \A t \in Threads : WF_vars(Progress(t))

\* the same arenas, with threads that also call try_reserve
NextReserve ==
    \/ NextGrow
    \/ \E t \in Threads, bs \in 1 .. MaxBuffer, n \in 0 .. (max_buckets + 1) :
           StartTryReserve(t, bs, n)

SpecReserve == InitGrow /\ [][NextReserve]_vars

\* ------------------------------------------------------------ bitmap runs
\* the indices of the BitMap under test
BitMapIndexes == 0 .. (BitMapWords * Bits - 1)

\* the indices the threads got from allocate and have not given back
Held == UNION {loc[u].held : u \in Threads}

\* every bit of every word is set (is_all_one)
is_all_one == \A w \in DOMAIN bitset[TestBucket] : bitset[TestBucket][w] = USIZE_MAX

\* a BitMap::<BitMapWords> in which the test has allocated the indices of S
InitBitMap ==
    /\ \E S \in SUBSET BitMapIndexes :
           bitset = [b \in BucketIds |-> [w \in 0 .. (BitMapWords - 1) |->
                        IF b = TestBucket THEN WordOf(S, w, Bits) ELSE 0]]
    /\ counter = [b \in BucketIds |-> [i \in Indexes |-> 0]]
    /\ val = [b \in BucketIds |-> [i \in Indexes |-> NoValue]]
    /\ gen = [b \in BucketIds |-> [i \in Indexes |-> 0]]
    /\ InitCommon
    /\ handles = EmptyBag
    /\ len = 0
    /\ buckets = <<>>
    /\ insLeft = 0
    /\ hcap = 0
    /\ callsLeft = NoLimit

\* a thread calls bitmap.allocate(): `get_thread_id() % BITARRAY_LEN`
StartAllocate(t) ==
    /\ pc[t] = "idle"
    /\ CallStart
    /\ pc' = [pc EXCEPT ![t] = "alloc_load"]
    /\ loc' = [loc EXCEPT ![t] =
                   [NoLoc EXCEPT !.op = "BitMap::allocate", !.b = TestBucket,
                                 !.pos = get_thread_id(t) % BitMap_len(TestBucket),
                                 !.held = loc[t].held]]
    /\ UNCHANGED <<bucketVars, handles, arenaVars, insLeft, hcap, owner, buckets, arcsVars, histVars>>

\* a thread calls bitmap.deallocate(index) on an index it holds, or on one
\* the test allocated before
StartDeallocate(t, index) ==
    /\ pc[t] = "idle"
    /\ BitMap_load(TestBucket, index)
    /\ \A u \in Threads \ {t} :
           /\ index \notin loc[u].held
           /\ ~(pc[u] \in {"dealloc_load", "dealloc_cas"} /\ loc[u].index = index)
    /\ CallStart
    /\ pc' = [pc EXCEPT ![t] = "dealloc_load"]
    /\ loc' = [loc EXCEPT ![t] =
                   [NoLoc EXCEPT !.op = "BitMap::deallocate", !.b = TestBucket,
                                 !.index = index, !.held = loc[t].held]]
    /\ UNCHANGED <<bucketVars, handles, arenaVars, insLeft, hcap, owner, buckets, arcsVars, histVars>>

\* the steps of BitMap::allocate and BitMap::deallocate
BitMapStep(t) == AllocLoad(t) \/ AllocCas(t) \/ DeallocLoad(t) \/ DeallocCas(t)

\* tests::realworld_test: the threads allocate and deallocate concurrently
NextBitMap ==
    \E t \in Threads :
        \/ StartAllocate(t)
        \/ \E index \in BitMapIndexes : StartDeallocate(t, index)
        \/ BitMapStep(t)
        \/ Return(t)

SpecBitMap == InitBitMap /\ [][NextBitMap]_vars

\* no thread other than t is in a call
Alone(t) == \A u \in Threads \ {t} : pc[u] = "idle"

\* tests::test, second half: one call at a time, from any thread
NextBitMapSeq ==
    \E t \in Threads :
        /\ Alone(t)
        /\ \/ StartAllocate(t)
           \/ \E index \in BitMapIndexes : StartDeallocate(t, index)
           \/ BitMapStep(t)
           \/ Return(t)

SpecBitMapSeq == InitBitMap /\ [][NextBitMapSeq]_vars

\* -------------------------------------------------------------- drain runs
\* The saturated bucket of InitSat, used as tests::test_clone uses its
\* bucket: one call at a time (get, clone, drop of a handle), any number of
\* calls, and `drop(bucket)`.
InitDrain ==
    /\ bitset = [b \in BucketIds |-> [w \in Words |->
                    IF b = TestBucket /\ w = 0 THEN 1 ELSE 0]]
    /\ counter = [b \in BucketIds |-> [i \in Indexes |->
                    IF b = TestBucket /\ i = 0 THEN SatHandles + 1 ELSE 0]]
    /\ val = [b \in BucketIds |-> [i \in Indexes |->
                    IF b = TestBucket /\ i = 0 THEN 1 ELSE NoValue]]
    /\ gen = [b \in BucketIds |-> [i \in Indexes |->
                    IF b = TestBucket /\ i = 0 THEN 1 ELSE 0]]
    /\ InitCommon
    /\ handles = [h \in {SatHandle} |-> SatHandles]
    /\ len = 0
    /\ buckets = <<>>
    /\ insLeft = 0
    /\ hcap = MAX_REFCNT + 2
    /\ callsLeft = NoLimit

NextDrain ==
    \/ \E t \in Threads :
           /\ Alone(t)
           /\ \/ GetBit(t, TestBucket, 0)
              \/ \E h \in BagToSet(handles) : ~ClonePanics(h) /\ Clone(t, h)
              \/ \E h \in BagToSet(handles) : Drop(t, h)
              \/ GetStep(t) \/ HandleStep(t)
              \/ Return(t)
    \/ DropOwner

SpecDrain == InitDrain /\ [][NextDrain]_vars

\* ------------------------------------------------------------------- Arcs
\* Arcs::len, `self.as_slice().len()`
Arcs_len == Len(array.elems)

\* Slice::is_same_arc
is_same_arc(this, other) ==
    IF this.ptr = 0 /\ other.ptr = 0 THEN TRUE
    ELSE IF this.ptr = 0 THEN FALSE
    ELSE IF other.ptr = 0 THEN FALSE
    ELSE this.ptr = other.ptr

\* a mutex nobody has to wait for
AlwaysFree == TRUE

\* Mutex::lock goes on, and Mutex::try_lock returns Some, when nobody
\* holds the mutex
MutexFree == mutex = NoThread

\* `f()`, Arc::default in the test: an element that is not in the array
f(elems) == CHOOSE e \in 0 .. Len(elems) : \A i \in 1 .. Len(elems) : elems[i] # e

\* do_grow, Initializer(slice_ref.iter(), new_len - old_len, f): the
\* clones of the elements of the slice, then n values of f
RECURSIVE Initializer(_, _)
Initializer(elems, n) ==
    IF n = 0 THEN elems ELSE Initializer(Append(elems, f(elems)), n - 1)

\* a thread calls bag.grow(new_len, f) or bag.try_grow(new_len, f):
\* `self.len() < new_len`
StartGrow(t, op, new_len) ==
    /\ pc[t] = "idle"
    /\ CallStart
    /\ LET l == [NoLoc EXCEPT !.op = op, !.new_len = new_len, !.len0 = Arcs_len]
       IN IF Arcs_len < new_len
          THEN /\ pc' = [pc EXCEPT ![t] = IF op = "Arcs::grow" THEN "grow_lock"
                                                             ELSE "grow_try_lock"]
               /\ loc' = [loc EXCEPT ![t] = l]
          ELSE /\ pc' = [pc EXCEPT ![t] = "done"]
               /\ loc' = [loc EXCEPT ![t] = [l EXCEPT !.ok = TRUE]]
    /\ UNCHANGED <<bucketVars, handles, arenaVars, insLeft, hcap, owner, buckets,
                   arcsVars, histVars>>

\* Arcs::grow, `self.mutex.lock()`
GrowLock(t) ==
    /\ pc[t] = "grow_lock"
    /\ MutexFree
    /\ mutex' = t
    /\ pc' = [pc EXCEPT ![t] = "grow_load"]
    /\ UNCHANGED <<bucketVars, handles, loc, arenaVars, insLeft, hcap, owner, buckets,
                   array, callsLeft, histVars>>

\* Arcs::try_grow, `self.mutex.try_lock()`: Err(()) when it is held
TryGrowLock(t) ==
    /\ pc[t] = "grow_try_lock"
    /\ IF MutexFree
       THEN /\ mutex' = t
            /\ pc' = [pc EXCEPT ![t] = "grow_load"]
            /\ UNCHANGED loc
       ELSE /\ pc' = [pc EXCEPT ![t] = "done"]
            /\ loc' = [loc EXCEPT ![t].ok = FALSE]
            /\ UNCHANGED mutex
    /\ UNCHANGED <<bucketVars, handles, arenaVars, insLeft, hcap, owner, buckets,
                   array, callsLeft, histVars>>

\* do_grow, `self.as_slice()`, `old_len >= new_len` and the new ThinArc
DoGrowLoad(t) ==
    /\ pc[t] = "grow_load"
    /\ IF Arcs_len >= loc[t].new_len
       THEN /\ pc' = [pc EXCEPT ![t] = "grow_unlock"]
            /\ loc' = [loc EXCEPT ![t].slice = array, ![t].old_len = Arcs_len]
       ELSE /\ pc' = [pc EXCEPT ![t] = "grow_swap"]
            \* the new array gets an address that no array has which the
            \* ArcSwapAny, a Slice guard or a local ThinArc refers to
            /\ \E p \in (1 .. (2 * NumThreads + 1))
                          \ ({array.ptr} \cup {loc[u].slice.ptr : u \in Threads}
                                         \cup {loc[u].arc.ptr : u \in Threads}) :
                   loc' = [loc EXCEPT
                       ![t].slice = array,
                       ![t].old_len = Arcs_len,
                       ![t].arc = [ptr |-> p,
                                   elems |-> Initializer(array.elems,
                                                         loc[t].new_len - Arcs_len)]]
    /\ UNCHANGED <<bucketVars, handles, arenaVars, insLeft, hcap, owner, buckets,
                   arcsVars, callsLeft, histVars>>

\* do_grow, `self.array.swap(Some(arc))` and the debug assertion
DoGrowSwap(t) ==
    /\ pc[t] = "grow_swap"
    /\ array' = loc[t].arc
    /\ asserts' = Fail(is_same_arc(loc[t].slice, array), "Arcs::do_grow:is_same_arc")
    /\ pc' = [pc EXCEPT ![t] = "grow_unlock"]
    /\ loc' = [loc EXCEPT ![t].arc = NoArray, ![t].added = 1]
    /\ UNCHANGED <<bucketVars, handles, arenaVars, insLeft, hcap, owner, buckets,
                   mutex, callsLeft, gen, removedBy, destroyed>>

\* do_grow returns: the old array, the Slice and the MutexGuard are dropped
GrowUnlock(t) ==
    /\ pc[t] = "grow_unlock"
    /\ mutex' = NoThread
    /\ pc' = [pc EXCEPT ![t] = "done"]
    /\ loc' = [loc EXCEPT ![t].slice = NoArray, ![t].ok = TRUE]
    /\ UNCHANGED <<bucketVars, handles, arenaVars, insLeft, hcap, owner, buckets,
                   array, callsLeft, histVars>>

\* arcs.rs tests: Arcs::new(), then threads that grow the bag
InitArcs ==
    /\ EmptyBuckets
    /\ InitCommon
    /\ handles = EmptyBag
    /\ len = 0
    /\ buckets = <<>>
    /\ insLeft = 0
    /\ hcap = 0
    /\ callsLeft = NoLimit

NextArcs ==
    \E t \in Threads :
        \/ \E op \in {"Arcs::grow", "Arcs::try_grow"}, n \in 0 .. MaxArcsLen :
               StartGrow(t, op, n)
        \/ GrowLock(t) \/ TryGrowLock(t)
        \/ DoGrowLoad(t) \/ DoGrowSwap(t) \/ GrowUnlock(t)
        \/ Return(t)

SpecArcs == InitArcs /\ [][NextArcs]_vars

\* ------------------------------------------------------------------ claims
KeyHandles(b, i, g) == {h \in EntryHandles(b, i) : h.gen = g}

\* a thread is at one of `pcs` on entry (b, i)
At(pcs, b, i) ==
    \E t \in Threads : pc[t] \in pcs /\ loc[t].b = b /\ loc[t].index = i

Done(t, ops) == pc[t] = "done" /\ loc[t].op \in ops

\* C1: every handle that exists refers to an entry whose refcount part is
\* at least 1 and whose cell still holds the value the handle was made for.
C1_NoUseAfterFree ==
    \A h \in BagToSet(handles) :
        /\ strong_count(h) >= 1
        /\ Deref(h) = h.gen


Removed(b, i, g) == BagIn(Key(b, i, g), removedBy)
Destroyed(b, i, g) == BagIn(Key(b, i, g), destroyed)

\* C2: every value is destroyed at most once, by the drop of its last
\* handle, and after a remove handed out h2 the handles keep dereferencing
\* to the value until the last of them is dropped, which destroys it.
C2_DestroyedExactlyOnce ==
    \A b \in BucketIds, i \in Indexes : \A g \in 1 .. gen[b][i] :
        /\ CopiesIn(Key(b, i, g), destroyed) <= 1
        /\ Destroyed(b, i, g) => KeyHandles(b, i, g) = {}
        /\ Removed(b, i, g) =>
               /\ \A h \in KeyHandles(b, i, g) : Deref(h) = g
               /\ KeyHandles(b, i, g) = {} => Destroyed(b, i, g)
               /\ (Destroyed(b, i, g) /\ ~At({"drop_val"}, b, i)) => val[b][i] # g

\* C3: two handles that exist at once have the same slot only if they come
\* from the same insertion (same bucket, same entry, same value).
C3_DistinctSlots ==
    \A h1, h2 \in BagToSet(handles) : h1.slot = h2.slot => h1 = h2

InsertOps == {"Arena::try_insert", "Arena::insert"}

\* C3 witness: two threads inserted while the arena grew from zero buckets
\* (one of them was refused by the empty arena first); both calls have
\* returned, their handles exist and have different slots.
C3_Witness ==
    \E t, u \in Threads :
        /\ t # u
        /\ Done(t, InsertOps) /\ Done(u, InsertOps)
        /\ loc[t].sawEmpty
        /\ \E h1 \in loc[t].ret, h2 \in loc[u].ret :
               /\ BagIn(h1, handles) /\ BagIn(h2, handles)
               /\ h1.slot # h2.slot

RemoveOps == {"Bucket::remove", "ArenaArc::remove"}

\* C4: of the remove calls on one value exactly one succeeds: no value is
\* removed twice, and a remove call that started on a live, not yet removed
\* entry and failed has lost to another remove of that value.
C4_OneRemoveWinner ==
    /\ \A k \in BagToSet(removedBy) : CopiesIn(k, removedBy) = 1
    /\ \A t \in Threads :
           (Done(t, RemoveOps) /\ loc[t].live0 /\ ~loc[t].ok)
               => Removed(loc[t].b, loc[t].index, loc[t].g0)

\* C5: a get(slot) or remove(slot) that starts after a remove(slot) of the
\* value has returned a handle returns none, or a handle to a later
\* insertion into the slot.
C5_RemovedStaysNone ==
    \A t \in Threads :
        (Done(t, {"Bucket::get", "Bucket::remove"}) /\ loc[t].srm0)
            => \A h \in loc[t].ret : h.gen > loc[t].g0

\* C6: a get that starts on a published, not removed value and ends with
\* the value still not removed returns a handle to that value.
C6_GetAfterInsert ==
    \A t \in Threads :
        (Done(t, {"Bucket::get"}) /\ loc[t].live0 /\ ~loc[t].rmEnd)
            => /\ loc[t].ret # {}
               /\ \A h \in loc[t].ret : h.gen = loc[t].g0
               /\ loc[t].deref = loc[t].g0

InsertPcs == {"ins_load", "ins_write", "ins_swap"}

\* C7: once the value of an entry was removed and the last handle to it has
\* finished dropping, the state byte is 0, the bitmap bit is clear and the
\* cell is empty, until an insert is given the entry again.
C7_SlotReclaimed ==
    \A b \in BucketIds, i \in Indexes :
        (/\ gen[b][i] > 0
         /\ Removed(b, i, gen[b][i])
         /\ KeyHandles(b, i, gen[b][i]) = {}
         /\ ~At(DropPcs \cup InsertPcs, b, i))
            => /\ counter[b][i] = 0
               /\ ~BitMap_load(b, i)
               /\ val[b][i] = NoValue

\* C7 witness: an insert was given an entry again whose first value had
\* been removed and destroyed (insert, remove, drop, insert: same slot).
C7_Witness ==
    \E t \in Threads :
        /\ Done(t, {"Bucket::try_insert"})
        /\ \E h \in loc[t].ret :
               /\ h.gen = 2
               /\ Removed(h.bucket, h.index, 1)
               /\ Destroyed(h.bucket, h.index, 1)

C9_StrongCount ==
    \A h \in BagToSet(handles) :
        strong_count(h) = NumHandles(h.bucket, h.index)
                              + (IF is_removed(h) THEN 0 ELSE 1)

\* a get that started on a published value to which no handle was left,
\* with no remove of the value before the get ended
GetAfterAllDropped(t) ==
    /\ Done(t, {"Bucket::get"})
    /\ loc[t].live0
    /\ loc[t].nh0 = 0
    /\ ~loc[t].rmEnd

C11_HandleRemove ==
    [][/\ \A t \in Threads :
              (pc[t] \in {"idle", "hrm_cas"} /\ pc'[t] = "done"
                  /\ loc'[t].op = "ArenaArc::remove")
                  => LET old == counter[loc'[t].b][loc'[t].index]
                         new == counter'[loc'[t].b][loc'[t].index]
                     IN IF loc'[t].ok
                        THEN /\ ~IsRemoved(old)
                             /\ IsRemoved(new)
                             /\ Refcnt(new) = Refcnt(old) - 1
                        ELSE /\ IsRemoved(old)
                             /\ new = old
       /\ \A b \in BucketIds, i \in Indexes :
              Removed(b, i, gen[b][i])
                  => \A h \in KeyHandles(b, i, gen[b][i]) : is_removed(h)]_vars

\* C12: a clone that finds the refcount part at MAX_REFCNT panics and hands
\* out no handle, and no entry ever has more than MAX_REFCNT handles.
C12_ClonePanicsAtMax ==
    [][\A b \in BucketIds, i \in Indexes :
           /\ NumHandles(b, i) <= MAX_REFCNT
           /\ (/\ pc' = pc
               /\ counter'[b][i] = Wrap8(counter[b][i] + 1)
               /\ Refcnt(counter[b][i]) = MAX_REFCNT)
                  => /\ "clone:panic" \in asserts'
                     /\ handles' = handles]_vars

\* C13: every handle carries slot = bucket * LEN + index of the bucket and
\* entry it is a handle to, with index < LEN, and Arena::remove(slot) returns
\* a handle to the entry (slot / LEN, slot % LEN), with that slot.
C13_SlotAddressesEntry ==
    /\ \A h \in BagToSet(handles) :
           /\ h.index < LEN
           /\ h.slot = h.bucket * LEN + h.index
    /\ \A t \in Threads :
           Done(t, {"Arena::remove"})
               => \A h \in loc[t].ret :
                      /\ h.slot = loc[t].slot
                      /\ h.bucket = loc[t].slot \div LEN
                      /\ h.index = loc[t].slot % LEN

\* C13 witness: an insert that started at bucket 1 found it full and wrapped
\* around to bucket 0, and an Arena::remove of a slot of bucket 1 returned a
\* handle.
C13_Witness ==
    \E t, u \in Threads :
        /\ Done(t, InsertOps)
        /\ loc[t].pos0 = 1 /\ loc[t].tried = 1
        /\ \E h \in loc[t].ret : h.bucket = 0
        /\ Done(u, {"Arena::remove"})
        /\ \E h \in loc[u].ret : h.bucket = 1

\* C15: an Arena::try_insert that fails returns length 0 from an arena
\* without buckets, and otherwise the length of its snapshot after every
\* bucket of the snapshot refused the value; it has changed no bitmap word,
\* state byte or cell.
C15_TryInsertErr ==
    \A t \in Threads :
        (Done(t, {"Arena::try_insert"}) /\ loc[t].ret = {})
            => /\ loc[t].errlen = loc[t].alen
               /\ loc[t].refused = 0 .. (loc[t].alen - 1)
               /\ ~loc[t].wrote

\* C15 witness: a try_insert has failed on an arena of two full buckets.
C15_Witness ==
    \E t \in Threads :
        /\ Done(t, {"Arena::try_insert"})
        /\ loc[t].ret = {}
        /\ loc[t].errlen = 2
        /\ loc[t].refused = {0, 1}

\* thread t is inside a call of Arena::insert
InInsert(t) == loc[t].op = "Arena::insert" /\ pc[t] \notin {"idle", "done"}

\* thread t has returned from Arena::insert with a handle
InsertReturned(t) == Done(t, {"Arena::insert"}) /\ loc[t].ret # {}

\* the arena has max_buckets buckets and every entry of them is allocated
ArenaFull ==
    /\ len = max_buckets
    /\ \A b \in BucketIds, i \in Indexes : BitAt(bitset[b][i \div Bits], i % Bits)

\* C14 as stated: under weak fairness an Arena::insert that was called while
\* the bucket count was below max_buckets eventually returns a handle.
C14_InsertReturns ==
    \A t \in Threads : (InInsert(t) /\ loc[t].below0) ~> InsertReturned(t)

\* C14: under weak fairness an Arena::insert in progress eventually returns a
\* handle, unless the arena fills up (max_buckets buckets, every entry
\* allocated) before it finds an entry.
C14_InsertReturnsOrFull ==
    \A t \in Threads : InInsert(t) ~> (InsertReturned(t) \/ ArenaFull)

\* C14 witness: two threads have both returned from an Arena::insert called
\* below max_buckets, one of them having found the arena without buckets and
\* grown it.
C14_Witness ==
    \E t, u \in Threads :
        /\ t # u
        /\ InsertReturned(t) /\ loc[t].below0 /\ loc[t].sawEmpty
        /\ InsertReturned(u) /\ loc[u].below0

\* C16: an Arena::remove(slot) whose bucket index slot / LEN is not below
\* the bucket count returns None: it does not panic and changes nothing.
C16_OutOfRangeIsNone ==
    \A t \in Threads :
        (Done(t, {"Arena::remove"}) /\ loc[t].bucket_index >= loc[t].alen)
            => /\ ~loc[t].panic
               /\ loc[t].ret = {}

\* C17: the bucket count never decreases, whatever step of whatever call a
\* thread takes.
C17_LenMonotonic == [][len' >= len]_vars

\* C17 witness: a try_reserve has returned true after the bucket count grew
\* past the count it started from, while handles to entries exist.
C17_Witness ==
    \E t \in Threads :
        /\ Done(t, {"Arena::try_reserve"})
        /\ loc[t].ok
        /\ loc[t].len0 > 0
        /\ len > loc[t].len0
        /\ handles # EmptyBag

\* C18: the bucket count is at most floor(u32::MAX / LEN) in every state,
\* the initial one included; the pushes of a try_reserve(new_len) leave it at
\* most min(new_len, max_buckets); and Arena::insert goes on to try_reserve
\* only after a try_insert that reported a length other than max_buckets.
C18_LenBounded ==
    /\ len <= U32_MAX \div LEN
    /\ [][/\ len' <= U32_MAX \div LEN
          /\ \A t \in Threads :
                 /\ (pc[t] = "rsv_wait" /\ pc'[t] # "rsv_wait")
                        => len' <= Min(loc[t].requested, U32_MAX \div LEN)
                 /\ (loc'[t].op = "Arena::insert" /\ pc[t] # "rsv_try"
                         /\ pc'[t] = "rsv_try")
                        => loc'[t].errlen < U32_MAX \div LEN]_vars

\* C18 witness: a try_reserve that asked for more than max_buckets has
\* returned true after adding buckets, the arena has max_buckets buckets, and
\* an Arena::insert that saw them all full is retrying.
C18_Witness ==
    \E t, u \in Threads :
        /\ Done(t, {"Arena::try_reserve"})
        /\ loc[t].ok
        /\ loc[t].requested > max_buckets
        /\ loc[t].added > 0
        /\ len = max_buckets
        /\ pc[u] = "ati_lock"
        /\ loc[u].op = "Arena::insert"
        /\ loc[u].errlen = max_buckets

\* C19: when Arena::try_reserve(new_len) has returned true the bucket count
\* is at least min(new_len, max_buckets), however many rounds of BUFFER_SIZE
\* buckets it took; when it has returned false the call has pushed no bucket.
C19_TryReserveResult ==
    \A t \in Threads :
        Done(t, {"Arena::try_reserve"})
            => /\ loc[t].ok => len >= Min(loc[t].requested, U32_MAX \div LEN)
               /\ ~loc[t].ok => loc[t].added = 0

\* C19 witness: a try_reserve::<1> has returned true after two rounds of one
\* bucket each, and a try_reserve of the other thread has returned false.
C19_Witness ==
    \E t, u \in Threads :
        /\ Done(t, {"Arena::try_reserve"})
        /\ loc[t].ok
        /\ loc[t].BUFFER_SIZE = 1
        /\ loc[t].added = 2
        /\ Done(u, {"Arena::try_reserve"})
        /\ ~loc[u].ok
        /\ loc[u].requested > 0

\* thread t is inside a call of Arena::try_insert or Arena::try_reserve
InTry(t) ==
    /\ loc[t].op \in {"Arena::try_insert", "Arena::try_reserve"}
    /\ pc[t] \notin {"idle", "done"}

\* C20: a thread inside Arena::try_insert or Arena::try_reserve can always
\* take its next step, whatever locks the other threads hold.
C20_TryNeverBlocks ==
    \A t \in Threads : InTry(t) => ENABLED (ArenaStep(t) \/ InsertStep(t))

\* the steps of Arena::try_reserve, called directly or from Arena::insert
GrowPcs == {"rsv_try", "rsv_upgrade", "rsv_wait"}

\* C21: while another thread is at any step of a growth, a thread that is
\* about to read the bucket table in Arena::try_insert or Arena::remove can
\* take that step.
C21_GrowthNeverBlocksReaders ==
    \A t, u \in Threads :
        (u # t /\ pc[u] \in GrowPcs /\ pc[t] \in {"ati_lock", "arm_lock"})
            => ENABLED ArenaStep(t)

\* C22: after the test has dropped its Arc<Bucket>, the bucket of every
\* handle that exists is still alive (its strong count is at least 1) and
\* the handle dereferences to the value it was made for.
C22_HandlesKeepBucketAlive ==
    ~owner =>
        \A b \in BucketIds : \A h \in BucketHandles(b) :
            /\ Arc_strong_count(b) >= 1
            /\ Deref(h) = h.gen

\* thread t is in the loop of Bucket::get or Bucket::remove with refcnt == 0:
\* it saw the bitmap bit set and the state byte 0
Spinning(t) == pc[t] \in {"get_cas", "rm_cas"} /\ loc[t].refcnt = 0

\* C23: under weak fairness a Bucket::get or Bucket::remove that spins on
\* state byte 0 eventually leaves the spin, released by the steps of the
\* calls in progress.
C23_SpinnerReleased ==
    \A t \in Threads : Spinning(t) ~> ~Spinning(t)

\* the steps of Bucket::try_insert between BitMap::allocate and the store
\* that publishes the entry
InitPcs == {"ins_load", "ins_write", "ins_swap"}

\* C24: the tombstone bit of an entry goes from 1 to 0 only in a step that
\* leaves the state byte 0x00, and after every step an entry whose bitmap bit
\* is set and whose state byte is 0x00 is being initialized by try_insert.
C24_TombstoneResetOnlyAtFree ==
    [][\A b \in BucketIds, i \in Indexes :
           /\ (IsRemoved(counter[b][i]) /\ ~IsRemoved(counter'[b][i]))
                  => counter'[b][i] = 0
           /\ (BitAt(bitset'[b][i \div Bits], i % Bits) /\ counter'[b][i] = 0)
                  => \E t \in Threads :
                         /\ pc'[t] \in InitPcs
                         /\ loc'[t].b = b /\ loc'[t].index = i]_vars

\* C25: the tombstone bit of an entry goes from 0 to 1 only in the
\* compare_exchange of Bucket::remove or ArenaArc::remove on that entry, and
\* a clone that panics leaves the state byte as it was.
C25_NoCarryIntoTombstone ==
    [][\A b \in BucketIds, i \in Indexes :
           /\ (~IsRemoved(counter[b][i]) /\ IsRemoved(counter'[b][i]))
                  => \E t \in Threads :
                         /\ pc[t] \in {"rm_cas", "hrm_cas"}
                         /\ pc'[t] = "done"
                         /\ loc[t].b = b /\ loc[t].index = i
           /\ ("clone:panic" \in asserts' /\ "clone:panic" \notin asserts)
                  => counter'[b][i] = counter[b][i]]_vars

\* C26: an entry whose bitmap bit is clear has state byte 0x00 and an empty
\* cell, and try_insert never fails an assertion on the entry that
\* BitMap::allocate gave it.
C26_ClearBitMeansFree ==
    /\ \A b \in BucketIds, i \in Indexes :
           ~BitMap_load(b, i) => (counter[b][i] = 0 /\ val[b][i] = NoValue)
    /\ asserts \cap {"try_insert:prev_refcnt", "try_insert:res", "try_insert:swap"} = {}

\* C27: no handle drop has seen a previous refcount part of 0, and none has
\* seen a previous refcount part of 1 with a previous state byte other than
\* 0x81.
C27_DropSeesTombstonedLast ==
    asserts \cap {"drop:prev_refcnt_ne_0", "drop:prev_counter"} = {}

\* C28: an ArenaArc::remove that has loaded a state byte without the
\* tombstone bit, and goes on to its compare_exchange, has loaded a refcount
\* part of at least 2.
C28_HandleRemoveSeesTwo ==
    \A t \in Threads :
        pc[t] = "hrm_cas" => (~IsRemoved(loc[t].refcnt) /\ Refcnt(loc[t].refcnt) >= 2)

\* C29: the index a BitMap::allocate returns is held by no thread at that
\* moment, is below BITARRAY_LEN * usize::BITS, and its bit reads as set when
\* the call returns; the sets of indices two threads hold never overlap.
C29_AllocateExclusive ==
    [][/\ \A t \in Threads :
              (pc[t] = "alloc_cas" /\ pc'[t] = "done" /\ loc'[t].ret # {})
                  => /\ loc'[t].ret = {loc'[t].index}
                     /\ loc'[t].index \notin Held
                     /\ loc'[t].index < BitMapWords * Bits
                     /\ BitAt(bitset'[TestBucket][loc'[t].index \div Bits],
                              loc'[t].index % Bits)
       /\ \A t, u \in Threads :
              t # u => loc'[t].held \cap loc'[u].held = {}]_vars

\* C29 witness: the two threads hold two indices each, the bitmap is full,
\* and both have just returned from an allocate.
C29_Witness ==
    \E t, u \in Threads :
        /\ t # u
        /\ Done(t, {"BitMap::allocate"}) /\ loc[t].ret # {}
        /\ Done(u, {"BitMap::allocate"}) /\ loc[u].ret # {}
        /\ Cardinality(loc[t].held) = 2
        /\ Cardinality(loc[u].held) = 2
        /\ is_all_one

\* the indices whose bit is clear

\* C30: with one call at a time, a BitMap::allocate returns None exactly when
\* every bit of every word is set, from whatever word it starts, and returns
\* i when i is the only clear bit; a deallocate(i) leaves bit i clear and
\* every other bit as it was.
C30_AllocateNoneIffFull ==
    [][\A t \in Threads :
           /\ (pc[t] \in {"alloc_load", "alloc_cas"} /\ pc'[t] = "done")
                  => /\ loc'[t].ret = {} <=> is_all_one
                     /\ \A i \in BitMapIndexes :
                            {j \in BitMapIndexes : ~BitMap_load(TestBucket, j)} = {i} => loc'[t].ret = {i}
           /\ (pc[t] = "dealloc_cas" /\ pc'[t] = "idle")
                  => \A j \in BitMapIndexes :
                         BitAt(bitset'[TestBucket][j \div Bits], j % Bits)
                             <=> (j # loc[t].index /\ BitMap_load(TestBucket, j))]_vars

\* C30 witness: an allocate that started at the last word found it full,
\* went on to word 0 and returned index 0, the only clear one: the thread
\* holds every index, and it got index 1 while bit 0 was set, so
\* a deallocate(0) came in between.
C30_Witness ==
    \E t \in Threads :
        /\ Done(t, {"BitMap::allocate"})
        /\ loc[t].ret = {0}
        /\ loc[t].held = BitMapIndexes
        /\ is_all_one
        /\ loc[t].k = 1
        /\ loc[t].pos = 0

\* C31: bucket indices are stable.  In every step the Vec keeps its length
\* or gets longer and every index that had a bucket keeps that bucket; a
\* step that changes the Vec changes no bitmap, state byte or cell; and
\* every handle's slot names, through the Vec, the bucket and the entry
\* the handle points to.
C31_BucketIndicesStable ==
    [][/\ Len(buckets') >= Len(buckets)
       /\ \A i \in 1 .. Len(buckets) : buckets'[i] = buckets[i]
       /\ buckets' # buckets => UNCHANGED <<bitset, counter, val>>
       /\ \A h \in BagToSet(handles') :
              /\ h.slot \div LEN < Len(buckets')
              /\ buckets'[(h.slot \div LEN) + 1] = h.bucket
              /\ h.slot % LEN = h.index]_vars

\* C31 witness: Arena::insert found the only bucket full, a bucket was
\* pushed, the value went into the new bucket at index 1, and a handle of
\* slot 0, made before the growth, still names its entry in the first bucket.
C31_Witness ==
    \E t \in Threads :
        /\ Done(t, {"Arena::insert"})
        /\ loc[t].errlen = 1
        /\ loc[t].added = 1
        /\ \E h \in loc[t].ret : h.slot \div LEN = 1 /\ h.bucket = buckets[2]
        /\ \E h0 \in BagToSet(handles) :
               /\ h0.slot = 0
               /\ h0.bucket = buckets[1]
               /\ val[h0.bucket][h0.index] # NoValue

\* C32: Arcs growth loses no update.  The is_same_arc assertion never
\* fails: the array a swap replaces is the snapshot the grower copied from.
\* The array changes only in such a swap, which keeps every element at its
\* index and brings the length to new_len.  When grow(new_len) has returned
\* the length is at least new_len, and a grow or try_grow that starts with
\* a length of at least new_len returns Ok at once and changes nothing.
C32_GrowLosesNoUpdate ==
    [][/\ "Arcs::do_grow:is_same_arc" \notin asserts'
       /\ \A t \in Threads :
              /\ (pc[t] = "grow_swap" /\ pc'[t] = "grow_unlock")
                     => /\ array = loc[t].slice
                        /\ Len(array'.elems) = loc[t].new_len
              /\ (pc'[t] = "done" /\ loc'[t].op = "Arcs::grow")
                     => Len(array'.elems) >= loc'[t].new_len
              /\ (pc'[t] = "done" /\ loc'[t].op \in {"Arcs::grow", "Arcs::try_grow"}
                                  /\ loc'[t].len0 >= loc'[t].new_len)
                     => loc'[t].added = 0 /\ loc'[t].ok
              /\ (pc[t] = "idle" /\ pc'[t] # "idle" /\ loc'[t].op \in {"Arcs::grow", "Arcs::try_grow"}
                                 /\ Arcs_len >= loc'[t].new_len)
                     => pc'[t] = "done" /\ UNCHANGED arcsVars
       /\ array' # array
              => /\ \E t \in Threads : pc[t] = "grow_swap" /\ pc'[t] = "grow_unlock"
                 /\ Len(array'.elems) > Len(array.elems)
                 /\ \A i \in 1 .. Len(array.elems) : array'.elems[i] = array.elems[i]]_vars

\* C32 witness: a grow call that saw a short array when it started, waited
\* for the mutex while another call grew the array, and then grew it again
\* from the longer snapshot to its own new_len.
C32_Witness ==
    \E t \in Threads :
        /\ Done(t, {"Arcs::grow"})
        /\ loc[t].added = 1
        /\ loc[t].old_len > loc[t].len0
        /\ Arcs_len = loc[t].new_len
        /\ Arcs_len = MaxArcsLen

\* C33: the arena never deadlocks.  In every reachable state in which some
\* call is unfinished, a thread with an unfinished call has an enabled step.
C33_NoDeadlock ==
    (\E t \in Threads : pc[t] \notin {"idle", "done"})
        => \E t \in Threads :
               /\ pc[t] \notin {"idle", "done"}
               /\ ENABLED (ArenaStep(t) \/ InsertStep(t) \/ RemoveStep(t) \/ HandleStep(t))

\* C33 witness: try_reserve has set the writer bit and waits for a reader
\* that is inside try_insert, while the reader can go on.
C33_Witness ==
    \E t, u \in Threads :
        /\ pc[t] = "rsv_wait"
        /\ ~ENABLED (ArenaStep(t) \/ InsertStep(t) \/ RemoveStep(t) \/ HandleStep(t))
        /\ u \in rwlock.readers
        /\ loc[u].op \in {"Arena::try_insert", "Arena::insert"}
        /\ ENABLED (ArenaStep(u) \/ InsertStep(u) \/ RemoveStep(u) \/ HandleStep(u))

\* C34: when a bucket is destroyed (its Arc has no owner left), every entry of it has the state byte 0
\* and an empty cell, or the state byte 1 and a value in its cell.
C34_DestroyedBucketClean ==
    Arc_strong_count(TestBucket) = 0
        => \A i \in Indexes :
               \/ counter[TestBucket][i] = 0 /\ val[TestBucket][i] = NoValue
               \/ counter[TestBucket][i] = 1 /\ val[TestBucket][i] # NoValue

====
